---- MODULE Spec2Model ----
(***************************************************************************)
(* Model of scripts/daily_wod_to_notion_db.mjs (the parser, the noise      *)
(* filter, the rich-text chunker and the sync run against the Notion       *)
(* database) and of the child listing of scripts/notion_inspect_page.mjs.  *)
(*                                                                         *)
(* A JavaScript string is a sequence of one-character strings; a list of   *)
(* lines is a sequence of such sequences.  Indices named as in the code    *)
(* are 0-based; At(s, k) reads s[k].                                        *)
(***************************************************************************)
EXTENDS Integers, Sequences, FiniteSets, TLC

VARIABLES
    text,       \* stripAnnoyingLines / notionRichText: the argument
    cleaned,    \* stripAnnoyingLines: the returned text
    chunks,     \* notionRichText: the returned list of segment contents
    tpc,        \* "off" | "in" | "out": before / after the call
    markdown,         \* parseWodPage: the argument markdown
    targetDDMMYYYY,   \* parseWodPage: the argument targetDDMMYYYY
    lines,            \* parseWodPage: const lines
    i,                \* parseWodPage: let i
    entries,          \* parseWodPage: const entries
    hdrAt,            \* parseWodPage: the value of i at which mDate last matched
    ppc,              \* "off" | "call" | "loop" | "done"
    children,     \* Notion: the types of the root page's child blocks, in order
    store,        \* Notion: the pages (rows) of the child database, in order
    today,        \* what dubaiTodayISO() returns
    sourceMd,     \* process.env.WOD_MARKDOWN
    pc,           \* main, per process: where it stands
    token,        \* main: const token
    pageId,       \* main: const pageId
    mainEntries,  \* main: const entries
    databaseId,   \* main: const databaseId
    existingKeys, \* main: const existingKeys
    created,      \* main: let created
    skipped,      \* main: let skipped
    pos,          \* main: how many entries the for loop has taken
    reason,       \* main: the message of the error that ended the run
    ops,          \* the requests of the run that fetch has answered, in order
    inflight,     \* the requests of the run that fetch has sent and not answered
    store0,       \* the store as it was when the run started
    nDone,        \* runs that ended by printing the summary
    nAborted,     \* runs that ended by an error
    cursor,     \* notion_inspect_page main: let cursor (0 for undefined)
    n,          \* notion_inspect_page main: let n
    types,      \* notion_inspect_page main: const types, the Map as a function
    sample,     \* notion_inspect_page main: const sample
    cursors,    \* the start_cursor of each request listChildren has sent
    counted,    \* the ids of the blocks the for loop has taken, in order
    lpc         \* "off" | "loop" | "done" | "failed"

textVars == <<text, cleaned, chunks, tpc>>

parseVars == <<markdown, targetDDMMYYYY, lines, i, entries, hdrAt, ppc>>

listVars == <<cursor, n, types, sample, cursors, counted, lpc>>

\* what the sync run leaves alone
pureVars == <<text, cleaned, chunks, tpc,
              markdown, targetDDMMYYYY, lines, i, entries, hdrAt, ppc,
              cursor, n, types, sample, cursors, counted, lpc>>

envVars == <<children, today, sourceMd>>

runVars == <<pc, token, pageId, mainEntries, databaseId, existingKeys,
             created, skipped, pos, reason, ops, inflight, store0>>

syncVars == <<children, store, today, sourceMd, pc, token, pageId, mainEntries,
              databaseId, existingKeys, created, skipped, pos, reason, ops,
              inflight, store0, nDone, nAborted>>

vars == <<text, cleaned, chunks, tpc,
          markdown, targetDDMMYYYY, lines, i, entries, hdrAt, ppc,
          children, store, today, sourceMd, pc, token, pageId, mainEntries,
          databaseId, existingKeys, created, skipped, pos, reason, ops,
          inflight, store0, nDone, nAborted,
          cursor, n, types, sample, cursors, counted, lpc>>

----------------------------------------------------------------------------
(* Characters and strings *)

NL == "\n"
CR == "\r"

\* What JavaScript's \s and String.prototype.trim take for whitespace,
\* restricted to the characters the model uses.
WhiteSpace == {" ", "\t", NL, CR}

Digits == {"0", "1", "2", "3", "4", "5", "6", "7", "8", "9"}

LowerAlpha ==
    <<"a", "b", "c", "d", "e", "f", "g", "h", "i", "j", "k", "l", "m",
      "n", "o", "p", "q", "r", "s", "t", "u", "v", "w", "x", "y", "z">>

UpperAlpha ==
    <<"A", "B", "C", "D", "E", "F", "G", "H", "I", "J", "K", "L", "M",
      "N", "O", "P", "Q", "R", "S", "T", "U", "V", "W", "X", "Y", "Z">>

\* Canonicalisation of the regular expressions' i flag.
ToUpper(c) ==
    IF \E k \in 1..Len(LowerAlpha) : LowerAlpha[k] = c
    THEN UpperAlpha[CHOOSE k \in 1..Len(LowerAlpha) : LowerAlpha[k] = c]
    ELSE c

At(s, k) == s[k + 1]

\* s.slice(from, to) for 0 <= from
Slice(s, from, to) ==
    LET hi == IF to > Len(s) THEN Len(s) ELSE to
    IN  IF from >= hi THEN <<>> ELSE SubSeq(s, from + 1, hi)

IsBlank(s) == \A k \in 1..Len(s) : s[k] \in WhiteSpace

\* String.prototype.trim
Trim(s) ==
    IF IsBlank(s) THEN <<>>
    ELSE LET first == CHOOSE a \in 1..Len(s) :
                          /\ s[a] \notin WhiteSpace
                          /\ \A k \in 1..(a - 1) : s[k] \in WhiteSpace
             last  == CHOOSE b \in 1..Len(s) :
                          /\ s[b] \notin WhiteSpace
                          /\ \A k \in (b + 1)..Len(s) : s[k] \in WhiteSpace
         IN  SubSeq(s, first, last)

\* pat occurs in s at 0-based offset a
MatchAt(s, a, pat) ==
    /\ a + Len(pat) <= Len(s)
    /\ \A k \in 1..Len(pat) : s[a + k] = pat[k]

\* the same under the i flag
MatchAtCI(s, a, pat) ==
    /\ a + Len(pat) <= Len(s)
    /\ \A k \in 1..Len(pat) : ToUpper(s[a + k]) = ToUpper(pat[k])

\* s[a .. b-1] is a non-empty run of whitespace (\s+ matched exactly there)
SpaceRun(s, a, b) ==
    /\ a < b
    /\ b <= Len(s)
    /\ \A k \in (a + 1)..b : s[k] \in WhiteSpace

\* Array.prototype.join
RECURSIVE Join(_, _)
Join(parts, sep) ==
    IF Len(parts) = 0 THEN <<>>
    ELSE IF Len(parts) = 1 THEN parts[1]
    ELSE parts[1] \o sep \o Join(Tail(parts), sep)

\* the concatenation of a list of sequences
RECURSIVE Concat(_)
Concat(parts) == IF Len(parts) = 0 THEN <<>> ELSE parts[1] \o Concat(Tail(parts))

\* text.split(/\r?\n/): every "\n", with the "\r" right before it when there
\* is one, separates two lines; a text without "\n" is one line.
RECURSIVE SplitLines(_)
SplitLines(s) ==
    IF \A k \in 1..Len(s) : s[k] # NL THEN <<s>>
    ELSE LET k    == CHOOSE j \in 1..Len(s) :
                         s[j] = NL /\ \A h \in 1..(j - 1) : s[h] # NL
             stop == IF k > 1 /\ s[k - 1] = CR THEN k - 2 ELSE k - 1
         IN  <<SubSeq(s, 1, stop)>> \o SplitLines(SubSeq(s, k + 1, Len(s)))

----------------------------------------------------------------------------
(* stripAnnoyingLines *)

PhraseNoReservation ==
    <<"N", "O", " ", "R", "E", "S", "E", "R", "V", "A", "T", "I", "O", "N",
      ",", " ", "N", "O", " ", "C", "L", "A", "S", "S", ".">>

PhraseMoreThan == <<"M", "O", "R", "E", " ", "T", "H", "A", "N">>

PhraseMin == <<"M", "I", "N">>

\* /NO RESERVATION, NO CLASS\./i.test(line)
TestNoReservation(line) ==
    \E a \in 0..Len(line) : MatchAtCI(line, a, PhraseNoReservation)

\* /MORE THAN\s+5\s+MIN/i.test(line)
TestMoreThan5Min(line) ==
    \E a \in 0..Len(line) :
        /\ MatchAtCI(line, a, PhraseMoreThan)
        /\ \E b \in 0..Len(line) :
               /\ SpaceRun(line, a + Len(PhraseMoreThan), b)
               /\ MatchAt(line, b, <<"5">>)
               /\ \E c \in 0..Len(line) :
                      /\ SpaceRun(line, b + 1, c)
                      /\ MatchAtCI(line, c, PhraseMin)

\* length of the run of "\n" that starts at 1-based position k
RECURSIVE NewlineRun(_, _)
NewlineRun(s, k) ==
    IF k <= Len(s) /\ s[k] = NL THEN 1 + NewlineRun(s, k + 1) ELSE 0

\* .replace(/\n{3,}/g, '\n\n'): every maximal run of three or more "\n"
\* becomes two of them; shorter runs stay.
RECURSIVE CollapseNewlines(_)
CollapseNewlines(s) ==
    IF Len(s) = 0 THEN <<>>
    ELSE LET run == NewlineRun(s, 1)
         IN  IF run = 0 THEN <<s[1]>> \o CollapseNewlines(Tail(s))
             ELSE (IF run >= 3 THEN <<NL, NL>> ELSE SubSeq(s, 1, run))
                  \o CollapseNewlines(SubSeq(s, run + 1, Len(s)))

KeepNotNoReservation(line) == ~TestNoReservation(line)

KeepNotMoreThan5Min(line) == ~TestMoreThan5Min(line)

stripAnnoyingLines(t) ==
    Trim(CollapseNewlines(
        Join(SelectSeq(SelectSeq(SplitLines(t), KeepNotNoReservation),
                       KeepNotMoreThan5Min),
             <<NL>>)))

----------------------------------------------------------------------------
(* notionRichText *)

max == 1800

\* ChunkFrom with each slice one character short
RECURSIVE ChunkFromShortSlice(_, _)
ChunkFromShortSlice(s, from) ==
    IF from < Len(s)
    THEN <<Slice(s, from, from + max - 1)>> \o ChunkFromShortSlice(s, from + max)
    ELSE <<>>

\* for (let i = 0; i < s.length; i += max) chunks.push(s.slice(i, i + max))
RECURSIVE ChunkFrom(_, _)
ChunkFrom(s, from) ==
    IF from < Len(s)
    THEN <<Slice(s, from, from + max)>> \o ChunkFrom(s, from + max)
    ELSE <<>>

\* The returned items are {type: 'text', text: {content: c}}; the model keeps
\* the content c of each.
notionRichText(content) ==
    IF IsBlank(content) THEN <<>> ELSE ChunkFrom(content, 0)

----------------------------------------------------------------------------
(* parseWodPage *)

HashMarks == <<"#", "#", "#", "#">>

\* \d{2}\/\d{2}\/\d{4} matched at 0-based offset b
DatePatternAt(s, b) ==
    /\ b + 10 <= Len(s)
    /\ \A k \in {1, 2, 4, 5, 7, 8, 9, 10} : s[b + k] \in Digits
    /\ s[b + 3] = "/"
    /\ s[b + 6] = "/"

\* /^####\s+(\d{2}\/\d{2}\/\d{4})\s*$/ matches s, the date starting at b
DateHeaderAt(s, b) ==
    /\ MatchAt(s, 0, HashMarks)
    /\ SpaceRun(s, Len(HashMarks), b)
    /\ DatePatternAt(s, b)
    /\ \A k \in (b + 11)..Len(s) : s[k] \in WhiteSpace

IsDateHeader(s) == \E b \in 0..Len(s) : DateHeaderAt(s, b)

\* mDate[1]
HeaderDate(s) ==
    LET b == CHOOSE c \in 0..Len(s) : DateHeaderAt(s, c)
    IN  SubSeq(s, b + 1, b + 10)

\* lines[k]?.trim() matches the date-header pattern
IsDateLine(ls, k) == k < Len(ls) /\ IsDateHeader(Trim(At(ls, k)))

\* x.replace(/^####\s+/, ''): the marks and all the whitespace after them go,
\* when at least one whitespace character follows the marks.
StripMarks(s) ==
    IF MatchAt(s, 0, HashMarks) /\ SpaceRun(s, Len(HashMarks), Len(HashMarks) + 1)
    THEN LET b == CHOOSE c \in (Len(HashMarks) + 1)..Len(s) :
                      /\ SpaceRun(s, Len(HashMarks), c)
                      /\ (c < Len(s) => s[c + 1] \notin WhiteSpace)
         IN  SubSeq(s, b + 1, Len(s))
    ELSE s

\* lines[k] ?? dflt
LineOr(ls, k, dflt) == IF k < Len(ls) THEN At(ls, k) ELSE dflt

\* LocLine without the fallback to lines[i + 1]
LocLineNoFallback(ls, k) == Trim(LineOr(ls, k + 2, <<>>))

\* (lines[i + 2] ?? lines[i + 1] ?? '').trim()
LocLine(ls, k) == Trim(LineOr(ls, k + 2, LineOr(ls, k + 1, <<>>)))

\* (lines[i + 3] ?? lines[i + 2] ?? '').trim()
ProgLine(ls, k) == Trim(LineOr(ls, k + 3, LineOr(ls, k + 2, <<>>)))

\* i += 4
BodyStart(k) == k + 4

\* The value of i when the body loop ends: the first date line at or after
\* from, else the end of the lines (from itself when it is beyond the end).
BodyEnd(ls, from) ==
    IF \E j \in from..(Len(ls) - 1) : IsDateLine(ls, j)
    THEN CHOOSE j \in from..(Len(ls) - 1) :
             IsDateLine(ls, j) /\ \A h \in from..(j - 1) : ~IsDateLine(ls, h)
    ELSE IF from > Len(ls) THEN from ELSE Len(ls)

\* One iteration of the outer while loop, from i = k with the entries es.
ParseIter(ls, k, es, target) ==
    IF ~IsDateLine(ls, k) THEN [i |-> k + 1, entries |-> es]
    ELSE LET date    == HeaderDate(Trim(At(ls, k)))
             loc     == Trim(StripMarks(LocLine(ls, k)))
             program == Trim(StripMarks(ProgLine(ls, k)))
             from    == BodyStart(k)
             to      == BodyEnd(ls, from)
             body    == Slice(ls, from, to)
         IN  [i |-> to,
              entries |->
                  IF date = target
                  THEN Append(es, [date |-> date, loc |-> loc, program |-> program,
                                   body |-> stripAnnoyingLines(Join(body, <<NL>>))])
                  ELSE es]

RECURSIVE ParseLoop(_, _, _, _)
ParseLoop(ls, k, es, target) ==
    IF k < Len(ls)
    THEN LET st == ParseIter(ls, k, es, target)
         IN  ParseLoop(ls, st.i, st.entries, target)
    ELSE es

parseWodPage(md, target) == ParseLoop(SplitLines(md), 0, <<>>, target)

----------------------------------------------------------------------------
(* Inputs *)

MaxBodyLines == 4
MaxShortLen == 5
MaxDocLines == 5

DateD1 == <<"0", "1", "/", "0", "2", "/", "2", "0", "2", "6">>
DateD2 == <<"0", "2", "/", "0", "2", "/", "2", "0", "2", "6">>

HdrD1 == HashMarks \o <<" ">> \o DateD1
HdrD2 == HashMarks \o <<" ">> \o DateD2

LineGymA == <<"#", "#", "#", "#", " ", "G", "y", "m", " ", "A">>
LineCrossFit ==
    <<"#", "#", "#", "#", " ", "C", "r", "o", "s", "s", "F", "i", "t">>
LineWarmUp == <<"W", "a", "r", "m", " ", "u", "p">>
Line5Rounds == <<"5", " ", "r", "o", "u", "n", "d", "s">>
LineGymB == <<"#", "#", "#", "#", " ", "G", "y", "m", " ", "B">>
LineOpenGym ==
    <<"#", "#", "#", "#", " ", "O", "p", "e", "n", " ", "G", "y", "m">>
LineFreeLift == <<"F", "r", "e", "e", " ", "l", "i", "f", "t">>

\* The end-to-end scenario's input text.
EndToEndText ==
    Join(<<HdrD1, LineGymA, LineCrossFit, LineWarmUp, Line5Rounds, <<>>,
           HdrD1, LineGymB, LineOpenGym, LineFreeLift, <<>> >>, <<NL>>)

\* all sequences of at most len elements of S
SeqsUpTo(S, len) == UNION {[1..m -> S] : m \in 0..len}

LineNoReservation ==
    <<"n", "o", " ", "R", "e", "s", "e", "r", "v", "a", "t", "i", "o", "n",
      ",", " ", "n", "o", " ", "c", "l", "a", "s", "s", ".", "!">>
LineMoreThan ==
    <<"M", "o", "r", "e", " ", "t", "h", "a", "n", " ", "\t", "5", " ",
      "m", "i", "n", "s">>

BodyLineKinds == {<<>>, <<" ">>, <<"a">>, <<"b", " ">>, LineNoReservation, LineMoreThan}

BodyTexts == {Join(ls, <<NL>>) : ls \in SeqsUpTo(BodyLineKinds, MaxBodyLines)}

DocLineKinds == {HdrD1, HdrD2, <<"#", "#", "#", "#", " ", "A">>, <<"w">>, <<>>}

DocTexts == {Join(ls, <<NL>>) : ls \in SeqsUpTo(DocLineKinds, MaxDocLines)}

\* texts for the chunker: every short text over two characters, and texts of
\* the lengths around the segment size, each of one repeated character or
\* of letters between two spaces
ShortTexts == SeqsUpTo({" ", "a"}, MaxShortLen)

Filled(len, edge, inner) ==
    [k \in 1..len |-> IF k = 1 \/ k = len THEN edge ELSE inner]

LongTexts ==
    {Filled(len, e, c) : len \in {max - 1, max, max + 1, 2 * max, 2 * max + 1},
                       e \in {" ", "a"}, c \in {" ", "a"}}

----------------------------------------------------------------------------
(* The sync run: main and the Notion requests *)

NumProcs == 2
Procs == 1..NumProcs

MaxRuns == 3
MaxBlocks == 2
MaxChildren == 101

\* page_size of the children listing and of the database query
PageSize == 100

KeySep == <<"_", "_">>

PlaceholderType == <<"W", "O", "D">>

SourceUrl == "https://vfuae.com/wod/"

\* " - " stands for the " — " of the title
TitleSep == <<" ", "-", " ">>

TitleMax == 180

\* s.split(c) for a one-character separator
RECURSIVE SplitOn(_, _)
SplitOn(s, c) ==
    IF \A k \in 1..Len(s) : s[k] # c THEN <<s>>
    ELSE LET k == CHOOSE j \in 1..Len(s) : s[j] = c /\ \A h \in 1..(j - 1) : s[h] # c
         IN  <<SubSeq(s, 1, k - 1)>> \o SplitOn(SubSeq(s, k + 1, Len(s)), c)

\* const [y, m, d] = iso.split('-'); return `${d}/${m}/${y}`
ddmmyyyyFromISO(iso) ==
    LET parts == SplitOn(iso, "-")
    IN  parts[3] \o <<"/">> \o parts[2] \o <<"/">> \o parts[1]

\* const key = `${e.loc}__${e.program}`
EntryKey(e) == e.loc \o KeySep \o e.program

\* entry.program || 'WOD'
TypeName(e) == IF e.program = <<>> THEN PlaceholderType ELSE e.program

\* The page createWodRow posts: its properties as Notion stores them.
createWodRow(isoDate, e) ==
    [Name     |-> notionRichText(
                      Slice(isoDate \o TitleSep \o e.loc \o TitleSep \o e.program,
                            0, TitleMax)),
     Date     |-> isoDate,
     Location |-> notionRichText(e.loc),
     Type     |-> TypeName(e),
     Source   |-> SourceUrl,
     WOD      |-> notionRichText(e.body)]

\* a create that replaces the pages of the same title
PostPageReplacing(rows, page) ==
    LET Other(r) == r.Name # page.Name
    IN  Append(SelectSeq(rows, Other), page)

\* POST /v1/pages with parent { database_id }: the database gets one more
\* page, after the ones it has
PostPage(rows, page) == Append(rows, page)

\* props.Location.rich_text.map(x => x.plain_text).join('') + '__' +
\* props.Type.select.name
PageKey(page) == Join(page.Location, <<>>) \o KeySep \o page.Type

\* What the database query answers: the pages whose Date equals isoDate, in
\* order, page_size of them at most (the rest is behind has_more).
QueryResults(rows, isoDate) ==
    LET DateEquals(page) == page.Date = isoDate
        hits == SelectSeq(rows, DateEquals)
    IN  Slice(hits, 0, PageSize)

\* queryExistingForDate: the keys of res.results
queryExistingForDate(rows, isoDate) ==
    LET res == QueryResults(rows, isoDate)
    IN  {PageKey(res[k]) : k \in 1..Len(res)}

\* What the children listing answers: the first page_size children.
ListResults(kids) == Slice(kids, 0, PageSize)

\* data.results?.find(b => b.type === 'child_database'): its 1-based place,
\* which stands for its id; 0 when there is none
FindChildDatabase(results) ==
    IF \E k \in 1..Len(results) : results[k] = "child_database"
    THEN CHOOSE k \in 1..Len(results) :
             /\ results[k] = "child_database"
             /\ \A h \in 1..(k - 1) : results[h] # "child_database"
    ELSE 0

ErrNoToken == "Missing NOTION_TOKEN in environment/.env"
ErrNoPageId == "Missing NOTION_PAGE_ID in environment/.env"
ErrNoMarkdown == "Missing WOD_MARKDOWN (expected vfuae.com/wod/ markdown)."
ErrNoEntries == "No entries found"
ErrApi == "Notion API error"
ErrNoDatabase == "No child_database found under target page."

\* a request sent through fetch: what it is, whether the response was ok, and
\* for a create the place of its entry in entries
Op(kind, ok, arg) == [op |-> kind, ok |-> ok, arg |-> arg]

\* main().catch: the run ends with the error err
Throw(p, err) ==
    /\ pc' = [pc EXCEPT ![p] = "failed"]
    /\ reason' = [reason EXCEPT ![p] = err]
    /\ nAborted' = nAborted + 1

\* A run starts: the process reads its environment.
StartRun(p) ==
    /\ pc[p] \in {"idle", "done", "failed"}
    /\ nDone + nAborted < MaxRuns
    /\ \E t \in {"", "secret"} : token' = [token EXCEPT ![p] = t]
    /\ \E g \in {"", "page"} : pageId' = [pageId EXCEPT ![p] = g]
    /\ pc' = [pc EXCEPT ![p] = "start"]
    /\ mainEntries' = [mainEntries EXCEPT ![p] = <<>>]
    /\ databaseId' = [databaseId EXCEPT ![p] = 0]
    /\ existingKeys' = [existingKeys EXCEPT ![p] = {}]
    /\ created' = [created EXCEPT ![p] = 0]
    /\ skipped' = [skipped EXCEPT ![p] = 0]
    /\ pos' = [pos EXCEPT ![p] = 0]
    /\ reason' = [reason EXCEPT ![p] = ""]
    /\ ops' = [ops EXCEPT ![p] = <<>>]
    /\ inflight' = [inflight EXCEPT ![p] = 0]
    /\ store0' = [store0 EXCEPT ![p] = store]
    /\ UNCHANGED <<store, nDone, nAborted>>
    /\ UNCHANGED envVars
    /\ UNCHANGED pureVars

\* Prologue with the check of the entries moved after the discovery request
PrologueChecksEntriesLate(p) ==
    /\ pc[p] = "start"
    /\ LET es == parseWodPage(sourceMd, ddmmyyyyFromISO(today))
       IN  IF token[p] = "" THEN
               Throw(p, ErrNoToken) /\ UNCHANGED <<mainEntries, ops>>
           ELSE IF pageId[p] = "" THEN
               Throw(p, ErrNoPageId) /\ UNCHANGED <<mainEntries, ops>>
           ELSE IF sourceMd = <<>> THEN
               Throw(p, ErrNoMarkdown) /\ UNCHANGED <<mainEntries, ops>>
           ELSE IF Len(es) = 0 THEN
               /\ Throw(p, ErrNoEntries)
               /\ mainEntries' = [mainEntries EXCEPT ![p] = es]
               /\ ops' = [ops EXCEPT ![p] = Append(@, Op("list", TRUE, 0))]
           ELSE
               /\ mainEntries' = [mainEntries EXCEPT ![p] = es]
               /\ pc' = [pc EXCEPT ![p] = "discover"]
               /\ UNCHANGED <<reason, nAborted, ops>>
    /\ UNCHANGED <<store, nDone, token, pageId, databaseId, existingKeys,
                   created, skipped, pos, inflight, store0>>
    /\ UNCHANGED envVars
    /\ UNCHANGED pureVars

\* main up to the first request: the configuration checks and the parse
Prologue(p) ==
    /\ pc[p] = "start"
    /\ LET es == parseWodPage(sourceMd, ddmmyyyyFromISO(today))
       IN  IF token[p] = "" THEN
               Throw(p, ErrNoToken) /\ UNCHANGED mainEntries
           ELSE IF pageId[p] = "" THEN
               Throw(p, ErrNoPageId) /\ UNCHANGED mainEntries
           ELSE IF sourceMd = <<>> THEN
               Throw(p, ErrNoMarkdown) /\ UNCHANGED mainEntries
           ELSE IF Len(es) = 0 THEN
               Throw(p, ErrNoEntries) /\ mainEntries' = [mainEntries EXCEPT ![p] = es]
           ELSE
               /\ mainEntries' = [mainEntries EXCEPT ![p] = es]
               /\ pc' = [pc EXCEPT ![p] = "discover"]
               /\ UNCHANGED <<reason, nAborted>>
    /\ UNCHANGED <<store, nDone, token, pageId, databaseId, existingKeys,
                   created, skipped, pos, ops, inflight, store0>>
    /\ UNCHANGED envVars
    /\ UNCHANGED pureVars

\* main stands at a call that goes through notionReq
AtRequest(p) ==
    \/ pc[p] \in {"discover", "query"}
    \/ /\ pc[p] = "loop"
       /\ pos[p] < Len(mainEntries[p])
       /\ EntryKey(mainEntries[p][pos[p] + 1]) \notin existingKeys[p]

\* a request sent while the one before it is still in flight
FetchNoAwait(p) ==
    /\ AtRequest(p)
    /\ inflight[p] <= 1
    /\ inflight' = [inflight EXCEPT ![p] = @ + 1]
    /\ UNCHANGED <<store, nDone, nAborted, pc, token, pageId, mainEntries,
                   databaseId, existingKeys, created, skipped, pos, reason, ops,
                   store0>>
    /\ UNCHANGED envVars
    /\ UNCHANGED pureVars

\* notionReq: await fetch(url, ...) sends the request; main goes on only with
\* the response
Fetch(p) ==
    /\ AtRequest(p)
    /\ inflight[p] = 0
    /\ inflight' = [inflight EXCEPT ![p] = 1]
    /\ UNCHANGED <<store, nDone, nAborted, pc, token, pageId, mainEntries,
                   databaseId, existingKeys, created, skipped, pos, reason, ops,
                   store0>>
    /\ UNCHANGED envVars
    /\ UNCHANGED pureVars

\* const databaseId = await getChildDatabaseId({ token, pageId })
Discover(p) ==
    /\ pc[p] = "discover"
    /\ inflight[p] >= 1
    /\ inflight' = [inflight EXCEPT ![p] = @ - 1]
    /\ \E ok \in BOOLEAN :
          /\ ops' = [ops EXCEPT ![p] = Append(@, Op("list", ok, 0))]
          /\ LET db == FindChildDatabase(ListResults(children))
             IN  IF ~ok THEN
                     Throw(p, ErrApi) /\ UNCHANGED databaseId
                 ELSE IF db = 0 THEN
                     Throw(p, ErrNoDatabase) /\ UNCHANGED databaseId
                 ELSE
                     /\ databaseId' = [databaseId EXCEPT ![p] = db]
                     /\ pc' = [pc EXCEPT ![p] = "query"]
                     /\ UNCHANGED <<reason, nAborted>>
    /\ UNCHANGED <<store, nDone, token, pageId, mainEntries, existingKeys,
                   created, skipped, pos, store0>>
    /\ UNCHANGED envVars
    /\ UNCHANGED pureVars

\* const existingKeys = await queryExistingForDate(...); let created = 0;
\* let skipped = 0
Query(p) ==
    /\ pc[p] = "query"
    /\ inflight[p] >= 1
    /\ inflight' = [inflight EXCEPT ![p] = @ - 1]
    /\ \E ok \in BOOLEAN :
          /\ ops' = [ops EXCEPT ![p] = Append(@, Op("query", ok, 0))]
          /\ IF ~ok THEN
                 Throw(p, ErrApi) /\ UNCHANGED existingKeys
             ELSE
                 /\ existingKeys' =
                        [existingKeys EXCEPT ![p] = queryExistingForDate(store, today)]
                 /\ pc' = [pc EXCEPT ![p] = "loop"]
                 /\ UNCHANGED <<reason, nAborted>>
    /\ UNCHANGED <<store, nDone, token, pageId, mainEntries, databaseId,
                   created, skipped, pos, store0>>
    /\ UNCHANGED envVars
    /\ UNCHANGED pureVars

\* a skip that is not counted
LoopSkipNoCount(p) ==
    /\ pc[p] = "loop"
    /\ pos[p] < Len(mainEntries[p])
    /\ EntryKey(mainEntries[p][pos[p] + 1]) \in existingKeys[p]
    /\ pos' = [pos EXCEPT ![p] = @ + 1]
    /\ UNCHANGED <<store, nDone, nAborted, pc, token, pageId, mainEntries,
                   databaseId, existingKeys, created, skipped, reason, ops,
                   inflight, store0>>
    /\ UNCHANGED envVars
    /\ UNCHANGED pureVars

\* the loop body for an entry whose key is in existingKeys
LoopSkip(p) ==
    /\ pc[p] = "loop"
    /\ pos[p] < Len(mainEntries[p])
    /\ EntryKey(mainEntries[p][pos[p] + 1]) \in existingKeys[p]
    /\ skipped' = [skipped EXCEPT ![p] = @ + 1]
    /\ pos' = [pos EXCEPT ![p] = @ + 1]
    /\ UNCHANGED <<store, nDone, nAborted, pc, token, pageId, mainEntries,
                   databaseId, existingKeys, created, reason, ops, inflight,
                   store0>>
    /\ UNCHANGED envVars
    /\ UNCHANGED pureVars

\* the loop body for an entry whose key is not in existingKeys:
\* await createWodRow(...); created++
LoopCreate(p) ==
    /\ pc[p] = "loop"
    /\ pos[p] < Len(mainEntries[p])
    /\ EntryKey(mainEntries[p][pos[p] + 1]) \notin existingKeys[p]
    /\ inflight[p] >= 1
    /\ inflight' = [inflight EXCEPT ![p] = @ - 1]
    /\ \E ok \in BOOLEAN :
          /\ ops' = [ops EXCEPT ![p] = Append(@, Op("create", ok, pos[p] + 1))]
          /\ IF ~ok THEN
                 Throw(p, ErrApi) /\ UNCHANGED <<store, created, pos>>
             ELSE
                 /\ store' = PostPage(store, createWodRow(today, mainEntries[p][pos[p] + 1]))
                 /\ created' = [created EXCEPT ![p] = @ + 1]
                 /\ pos' = [pos EXCEPT ![p] = @ + 1]
                 /\ UNCHANGED <<pc, reason, nAborted>>
    /\ UNCHANGED <<nDone, token, pageId, mainEntries, databaseId, existingKeys,
                   skipped, store0>>
    /\ UNCHANGED envVars
    /\ UNCHANGED pureVars

\* process.stdout.write(`Notion DB updated ...`)
Finish(p) ==
    /\ pc[p] = "loop"
    /\ pos[p] = Len(mainEntries[p])
    /\ pc' = [pc EXCEPT ![p] = "done"]
    /\ nDone' = nDone + 1
    /\ UNCHANGED <<store, nAborted, token, pageId, mainEntries, databaseId,
                   existingKeys, created, skipped, pos, reason, ops, inflight,
                   store0>>
    /\ UNCHANGED envVars
    /\ UNCHANGED pureVars

Step(p) ==
    \/ StartRun(p)
    \/ Prologue(p)
    \/ Fetch(p)
    \/ Discover(p)
    \/ Query(p)
    \/ LoopSkip(p)
    \/ LoopCreate(p)
    \/ Finish(p)

IsoD1 == <<"2", "0", "2", "6", "-", "0", "2", "-", "0", "1">>
IsoD2 == <<"2", "0", "2", "6", "-", "0", "2", "-", "0", "2">>

LocA == <<"#", "#", "#", "#", " ", "A">>
LocB == <<"#", "#", "#", "#", " ", "B">>
ProgX == <<"#", "#", "#", "#", " ", "X">>

\* blocks laid out as the parser reads them: the location two lines and the
\* program three lines after the date header
BlockKinds ==
    { <<HdrD1, <<>>, LocA, ProgX, <<"w">> >>,
      <<HdrD1, <<>>, LocB, ProgX, <<"v">> >>,
      <<HdrD1, <<>>, LocA, <<>>, <<"u">> >>,
      <<HdrD2, <<>>, LocA, ProgX, <<"w">> >> }

SyncDocs ==
    {Join(Concat(bs), <<NL>>) : bs \in SeqsUpTo(BlockKinds, MaxBlocks)}

\* len children, the one at place db (if any) the database
Kids(len, db) ==
    [k \in 1..len |-> IF k = db THEN "child_database" ELSE "paragraph"]

ChildListings ==
    {Kids(1, 1), Kids(PageSize, PageSize),
     Kids(MaxChildren, MaxChildren), Kids(MaxChildren, 0)}

\* a page of another day, already in the database
OtherDayPage ==
    createWodRow(IsoD2, [date |-> DateD2, loc |-> <<"A">>, program |-> <<"X">>,
                         body |-> <<"w">>])

\* the decimal digits of k
RECURSIVE ToDigits(_)
ToDigits(k) ==
    LET digit == <<"0", "1", "2", "3", "4", "5", "6", "7", "8", "9">>
    IN  IF k < 10 THEN <<digit[k + 1]>>
        ELSE ToDigits(k \div 10) \o <<digit[(k % 10) + 1]>>

\* the page of the day at location A with program X
PageAX ==
    createWodRow(IsoD1, [date |-> DateD1, loc |-> <<"A">>, program |-> <<"X">>,
                         body |-> <<"w">>])

\* a page of the day at a location of its own
FillerPage(k) ==
    createWodRow(IsoD1, [date |-> DateD1, loc |-> <<"F">> \o ToDigits(k),
                         program |-> <<"X">>, body |-> <<>>])

\* page_size pages of the day and, after them, the page of A and X
StoreOverPage == [k \in 1..PageSize |-> FillerPage(k)] \o <<PageAX>>

\* page_size pages of the day, the last of them the page of A and X
StoreOnePage == [k \in 1..(PageSize - 1) |-> FillerPage(k)] \o <<PageAX>>

LocAUnder == <<"#", "#", "#", "#", " ", "A", "_", "_">>
ProgUnderX == <<"#", "#", "#", "#", " ", "_", "_", "X">>

\* two blocks of different location and program whose keys are one string
KeyBlockKinds ==
    { <<HdrD1, <<>>, LocAUnder, ProgX, <<"w">> >>,
      <<HdrD1, <<>>, LocA, ProgUnderX, <<"v">> >> }

KeyDocs ==
    {Join(Concat(bs), <<NL>>) : bs \in SeqsUpTo(KeyBlockKinds, MaxBlocks)}

\* the page of the day at location A with program __X
UnderscorePage ==
    createWodRow(IsoD1, [date |-> DateD1, loc |-> <<"A">>,
                         program |-> <<"_", "_", "X">>, body |-> <<"v">>])

DbOff ==
    /\ store = <<>> /\ today = <<>> /\ sourceMd = <<>>
    /\ pc = <<>> /\ token = <<>> /\ pageId = <<>> /\ mainEntries = <<>>
    /\ databaseId = <<>> /\ existingKeys = <<>> /\ created = <<>>
    /\ skipped = <<>> /\ pos = <<>> /\ reason = <<>> /\ ops = <<>>
    /\ inflight = <<>>
    /\ store0 = <<>> /\ nDone = 0 /\ nAborted = 0

SyncOff == children = <<>> /\ DbOff

ListOff ==
    /\ cursor = 0 /\ n = 0 /\ types = <<>> /\ sample = <<>>
    /\ cursors = <<>> /\ counted = <<>> /\ lpc = "off"

----------------------------------------------------------------------------
(* Specifications of the pure functions *)

TextOff == text = <<>> /\ cleaned = <<>> /\ chunks = <<>> /\ tpc = "off"

ParseOff ==
    /\ markdown = <<>> /\ targetDDMMYYYY = <<>> /\ lines = <<>> /\ i = 0
    /\ entries = <<>> /\ hdrAt = -1 /\ ppc = "off"

\* stripAnnoyingLines(text)
Clean ==
    /\ tpc = "in"
    /\ cleaned' = stripAnnoyingLines(text)
    /\ tpc' = "out"
    /\ UNCHANGED <<text, chunks>>
    /\ UNCHANGED parseVars
    /\ UNCHANGED syncVars
    /\ UNCHANGED listVars

InitClean ==
    /\ text \in BodyTexts
    /\ cleaned = <<>> /\ chunks = <<>> /\ tpc = "in"
    /\ ParseOff
    /\ SyncOff
    /\ ListOff

SpecClean == InitClean /\ [][Clean]_vars

\* notionRichText(text)
Chunk ==
    /\ tpc = "in"
    /\ chunks' = notionRichText(text)
    /\ tpc' = "out"
    /\ UNCHANGED <<text, cleaned>>
    /\ UNCHANGED parseVars
    /\ UNCHANGED syncVars
    /\ UNCHANGED listVars

InitChunk ==
    /\ text \in ShortTexts \cup LongTexts
    /\ cleaned = <<>> /\ chunks = <<>> /\ tpc = "in"
    /\ ParseOff
    /\ SyncOff
    /\ ListOff

SpecChunk == InitChunk /\ [][Chunk]_vars

\* const lines = markdown.split(/\r?\n/); const entries = []; let i = 0
ParseStart ==
    /\ ppc = "call"
    /\ lines' = SplitLines(markdown)
    /\ i' = 0
    /\ entries' = <<>>
    /\ ppc' = "loop"
    /\ UNCHANGED <<markdown, targetDDMMYYYY, hdrAt>>
    /\ UNCHANGED textVars
    /\ UNCHANGED syncVars
    /\ UNCHANGED listVars

\* an iteration of the outer loop at a line that is no date header
ParseSeek ==
    /\ ppc = "loop"
    /\ i < Len(lines)
    /\ ~IsDateLine(lines, i)
    /\ i' = ParseIter(lines, i, entries, targetDDMMYYYY).i
    /\ entries' = ParseIter(lines, i, entries, targetDDMMYYYY).entries
    /\ UNCHANGED <<markdown, targetDDMMYYYY, lines, hdrAt, ppc>>
    /\ UNCHANGED textVars
    /\ UNCHANGED syncVars
    /\ UNCHANGED listVars

\* an iteration of the outer loop at a date header: header, body, entry
ParseBlock ==
    /\ ppc = "loop"
    /\ i < Len(lines)
    /\ IsDateLine(lines, i)
    /\ i' = ParseIter(lines, i, entries, targetDDMMYYYY).i
    /\ entries' = ParseIter(lines, i, entries, targetDDMMYYYY).entries
    /\ hdrAt' = i
    /\ UNCHANGED <<markdown, targetDDMMYYYY, lines, ppc>>
    /\ UNCHANGED textVars
    /\ UNCHANGED syncVars
    /\ UNCHANGED listVars

\* return entries
ParseReturn ==
    /\ ppc = "loop"
    /\ i >= Len(lines)
    /\ ppc' = "done"
    /\ UNCHANGED <<markdown, targetDDMMYYYY, lines, i, entries, hdrAt>>
    /\ UNCHANGED textVars
    /\ UNCHANGED syncVars
    /\ UNCHANGED listVars

InitParse ==
    /\ markdown \in DocTexts \cup {EndToEndText}
    /\ targetDDMMYYYY \in {DateD1, DateD2}
    /\ lines = <<>> /\ i = 0 /\ entries = <<>> /\ hdrAt = -1
    /\ ppc = "call"
    /\ TextOff
    /\ SyncOff
    /\ ListOff

NextParse == ParseStart \/ ParseSeek \/ ParseBlock \/ ParseReturn

SpecParse == InitParse /\ [][NextParse]_vars

----------------------------------------------------------------------------
(* Specification of the sync runs: one process, its runs one after another *)

\* no process has started main
RunsIdle ==
    /\ pc = [p \in Procs |-> "idle"]
    /\ token = [p \in Procs |-> ""]
    /\ pageId = [p \in Procs |-> ""]
    /\ mainEntries = [p \in Procs |-> <<>>]
    /\ databaseId = [p \in Procs |-> 0]
    /\ existingKeys = [p \in Procs |-> {}]
    /\ created = [p \in Procs |-> 0]
    /\ skipped = [p \in Procs |-> 0]
    /\ pos = [p \in Procs |-> 0]
    /\ reason = [p \in Procs |-> ""]
    /\ ops = [p \in Procs |-> <<>>]
    /\ inflight = [p \in Procs |-> 0]
    /\ store0 = [p \in Procs |-> <<>>]
    /\ nDone = 0
    /\ nAborted = 0
    /\ TextOff
    /\ ParseOff
    /\ ListOff

Init ==
    /\ children \in ChildListings
    /\ store \in {<<>>, <<OtherDayPage>>}
    /\ today = IsoD1
    /\ sourceMd \in SyncDocs
    /\ RunsIdle

\* the processes that run in this specification
Writers == {1}

Next == \E p \in Writers : Step(p)

Spec == Init /\ [][Next]_vars

----------------------------------------------------------------------------
(* Specification of two sync processes whose runs may overlap *)

InitRace ==
    /\ children = Kids(1, 1)
    /\ store = <<>>
    /\ today = IsoD1
    /\ sourceMd \in SyncDocs
    /\ RunsIdle

NextRace == \E p \in Procs : Step(p)

SpecRace == InitRace /\ [][NextRace]_vars

----------------------------------------------------------------------------
(* Specification of the sync runs, one process, against a database that     *)
(* already holds pages of the day                                           *)

InitStored ==
    /\ children = Kids(1, 1)
    /\ store \in {StoreOverPage, StoreOnePage, <<UnderscorePage>>}
    /\ today = IsoD1
    /\ sourceMd \in SyncDocs \cup KeyDocs
    /\ RunsIdle

SpecStored == InitStored /\ [][Next]_vars

----------------------------------------------------------------------------
(* Specification of the child listing of notion_inspect_page.mjs *)

MaxListed == 201

\* if (sample.length < 40)
SampleMax == 40

\* The API serves the children in pages: start_cursor is the id of the first
\* block of the page asked for, and a block's id is its place in the listing.
PageStart(c) == IF c = 0 THEN 1 ELSE c

\* GET /v1/blocks/{blockId}/children?page_size=100[&start_cursor=c]
ListPage(kids, c) ==
    LET first == PageStart(c)
        last == IF first + PageSize - 1 < Len(kids)
                THEN first + PageSize - 1 ELSE Len(kids)
    IN  [results     |-> [k \in 1..(last - first + 1) |->
                             [id |-> first + k - 1, type |-> kids[first + k - 1]]],
         has_more    |-> last < Len(kids),
         next_cursor |-> IF last < Len(kids) THEN last + 1 ELSE 0]

\* types.set(b.type, (types.get(b.type) ?? 0) + 1), for every b of results
TypesAfter(ty, results) ==
    LET seen == {results[k].type : k \in 1..Len(results)}
    IN  [t \in (DOMAIN ty) \cup seen |->
            (IF t \in DOMAIN ty THEN ty[t] ELSE 0)
                + Cardinality({k \in 1..Len(results) : results[k].type = t})]

\* if (sample.length < 40) sample.push(...), for every b of results
SampleAfter(sm, results) ==
    IF Len(sm) >= SampleMax THEN sm
    ELSE sm \o Slice(results, 0, SampleMax - Len(sm))

\* an iteration of the loop that stops after its page whatever has_more says
ListStepSinglePage ==
    /\ lpc = "loop"
    /\ cursors' = Append(cursors, cursor)
    /\ \E ok \in BOOLEAN :
          IF ~ok THEN
              /\ lpc' = "failed"
              /\ UNCHANGED <<cursor, n, types, sample, counted>>
          ELSE
              LET res == ListPage(children, cursor)
              IN  /\ n' = n + Len(res.results)
                  /\ types' = TypesAfter(types, res.results)
                  /\ sample' = SampleAfter(sample, res.results)
                  /\ counted' = counted \o [k \in 1..Len(res.results) |-> res.results[k].id]
                  /\ lpc' = "done"
                  /\ UNCHANGED cursor
    /\ UNCHANGED syncVars
    /\ UNCHANGED textVars
    /\ UNCHANGED parseVars

\* an iteration of while (true): await listChildren({ token, blockId, cursor }),
\* the for loop over results, then break or cursor = next_cursor
ListStep ==
    /\ lpc = "loop"
    /\ cursors' = Append(cursors, cursor)
    /\ \E ok \in BOOLEAN :
          IF ~ok THEN
              /\ lpc' = "failed"
              /\ UNCHANGED <<cursor, n, types, sample, counted>>
          ELSE
              LET res == ListPage(children, cursor)
              IN  /\ n' = n + Len(res.results)
                  /\ types' = TypesAfter(types, res.results)
                  /\ sample' = SampleAfter(sample, res.results)
                  /\ counted' = counted \o [k \in 1..Len(res.results) |-> res.results[k].id]
                  /\ IF ~res.has_more THEN
                         lpc' = "done" /\ UNCHANGED cursor
                     ELSE
                         cursor' = res.next_cursor /\ lpc' = "loop"
    /\ UNCHANGED syncVars
    /\ UNCHANGED textVars
    /\ UNCHANGED parseVars

\* let cursor; let n = 0; const types = new Map(); const sample = []
InitList ==
    /\ children \in {Kids(len, db) : len \in 0..MaxListed, db \in {0, 1}}
    /\ cursor = 0 /\ n = 0 /\ types = <<>> /\ sample = <<>>
    /\ cursors = <<>> /\ counted = <<>> /\ lpc = "loop"
    /\ DbOff
    /\ TextOff
    /\ ParseOff

\* the loop goes on when the response it awaits arrives
SpecList == InitList /\ [][ListStep]_vars /\ WF_vars(ListStep)

----------------------------------------------------------------------------
(* Claims about the pure functions *)

Last(q) == q[Len(q)]

\* what the claims compare of an entry
EntryView(e) == [loc |-> e.loc, program |-> e.program, body |-> e.body]

EntryViews(es) == [k \in 1..Len(es) |-> EntryView(es[k])]

\* 0-based indices of the date-header lines of ls whose date is d
HeadersOf(ls, d) ==
    {k \in 0..(Len(ls) - 1) : IsDateLine(ls, k) /\ HeaderDate(Trim(At(ls, k))) = d}

\* C3: the end-to-end text parsed for 01/02/2026 gives exactly the entries
\* (Gym A, CrossFit, "Warm up\n5 rounds") and (Gym B, Open Gym, "Free lift"),
\* in this order.
C3_EndToEndParse ==
    (ppc = "done" /\ markdown = EndToEndText /\ targetDDMMYYYY = DateD1) =>
        EntryViews(entries) =
            << [loc     |-> <<"G", "y", "m", " ", "A">>,
                program |-> <<"C", "r", "o", "s", "s", "F", "i", "t">>,
                body    |-> LineWarmUp \o <<NL>> \o Line5Rounds],
               [loc     |-> <<"G", "y", "m", " ", "B">>,
                program |-> <<"O", "p", "e", "n", " ", "G", "y", "m">>,
                body    |-> LineFreeLift] >>

\* C4: when the parse returns, the entries are one per date-header line of the
\* input whose date is the target date, and none has another date: no header
\* line is lost.
C4_ParseCompleteness ==
    ppc = "done" =>
        /\ Len(entries) = Cardinality(HeadersOf(lines, targetDDMMYYYY))
        /\ \A k \in 1..Len(entries) : entries[k].date = targetDDMMYYYY

\* C5 as stated: the segments of notionRichText(s) concatenate to s and none
\* is longer than the maximum, for every s.
C5_ChunkRoundTrip ==
    tpc = "out" =>
        /\ Concat(chunks) = text
        /\ \A k \in 1..Len(chunks) : Len(chunks[k]) <= 1800

\* C5 amended: no segment is longer than the maximum; the segments concatenate
\* to s unless s is made only of whitespace, and then there is no segment.
C5_ChunkRoundTripUnlessBlank ==
    tpc = "out" =>
        /\ \A k \in 1..Len(chunks) : Len(chunks[k]) <= 1800
        /\ IF \A k \in 1..Len(text) : text[k] \in WhiteSpace
           THEN chunks = <<>>
           ELSE Concat(chunks) = text

\* a text of an exact multiple of the maximum, cut in two full segments
C5_Witness ==
    /\ tpc = "out"
    /\ Len(text) = 2 * 1800
    /\ Len(chunks) = 2
    /\ Len(chunks[2]) = 1800

\* C6: the cleaned text has no line holding a boilerplate phrase, no two
\* consecutive blank lines (empty or only whitespace), and no leading or
\* trailing whitespace.
C6_BodyInvariant ==
    tpc = "out" =>
        LET out == SplitLines(cleaned)
        IN  /\ \A k \in 1..Len(out) :
                   ~TestNoReservation(out[k]) /\ ~TestMoreThan5Min(out[k])
            /\ \A k \in 1..(Len(out) - 1) : ~(IsBlank(out[k]) /\ IsBlank(out[k + 1]))
            /\ cleaned = <<>> \/
                   (cleaned[1] \notin WhiteSpace /\ Last(cleaned) \notin WhiteSpace)

\* the line at offset off of the header at k when it exists, else the line
\* before it when that exists, else the empty line
FallbackLine(ls, k, off) ==
    IF k + off + 1 <= Len(ls) THEN ls[k + off + 1]
    ELSE IF k + off <= Len(ls) THEN ls[k + off]
    ELSE <<>>

\* a header field as taken from a line: trimmed, without its leading marks
FieldOf(line) == Trim(StripMarks(Trim(line)))

DateAt(ls, k) == HeaderDate(Trim(At(ls, k)))

\* C12: when the first date header of the document is directly followed by
\* another date header, both of the target date, the first header yields an
\* entry with an empty body whose location and program are not the second
\* header, and the second header yields an entry of its own.
C12_EmptyRecord ==
    \A k \in 0..(Len(lines) - 2) :
        (/\ ppc = "done"
         /\ \A h \in 0..(k - 1) : ~IsDateLine(lines, h)
         /\ IsDateLine(lines, k) /\ IsDateLine(lines, k + 1)
         /\ DateAt(lines, k) = targetDDMMYYYY
         /\ DateAt(lines, k + 1) = targetDDMMYYYY) =>
            /\ Len(entries) >= 2
            /\ entries[1].body = <<>>
            /\ entries[1].loc # FieldOf(At(lines, k + 1))
            /\ entries[1].program # FieldOf(At(lines, k + 1))

----------------------------------------------------------------------------
(* Claims about the child listing *)

\* the first request has no cursor, every further request starts at the
\* cursor the page before it returned, no cursor is sent twice, the blocks
\* counted are the blocks of the listing, each once and in order, and the loop
\* ends at the first page without has_more, with every child counted
ListedInOrder ==
    lpc # "off" =>
        /\ cursors # <<>> => cursors[1] = 0
        /\ \A a \in 2..Len(cursors) :
               /\ ListPage(children, cursors[a - 1]).has_more
               /\ cursors[a] = ListPage(children, cursors[a - 1]).next_cursor
        /\ \A a, b \in 1..Len(cursors) : a # b => cursors[a] # cursors[b]
        /\ counted = [k \in 1..Len(counted) |-> k]
        /\ n = Len(counted)
        /\ Len(counted) <= Len(children)
        /\ lpc = "done" =>
               /\ n = Len(children)
               /\ ~ListPage(children, Last(cursors)).has_more

\* C17: the listing loop asks for each page from the cursor the page before
\* it returned, never for the same page twice, counts every child once and
\* in the order of the listing, and ends: at the first page without has_more
\* or at a response that is not ok.
C17_ListsToCompletion ==
    /\ []ListedInOrder
    /\ <>(lpc \in {"done", "failed"})

\* a listing of three pages, read to its end
C17_Witness ==
    /\ lpc = "done"
    /\ Len(cursors) = 3
    /\ n > 2 * PageSize
    /\ n = Len(children)

----------------------------------------------------------------------------
(* Claims about the sync runs *)

\* the pages of the store that createWodRow writes for the entry e today
PagesOf(e) == {k \in 1..Len(store) : store[k] = createWodRow(today, e)}

\* the entries of the run of p that had a page in the store when it started
StoredAtStart(p) ==
    {j \in 1..Len(mainEntries[p]) :
        \E k \in 1..Len(store0[p]) :
            store0[p][k] = createWodRow(today, mainEntries[p][j])}

\* C1: from a store without a page of the day, the first complete run reports
\* created = N and skipped = 0, and the second complete run over the same
\* entries reports created = 0 and skipped = N and leaves the store as the
\* first run left it.
C1_IdempotentSync ==
    \A p \in Procs :
        (pc[p] = "done" /\ nAborted = 0) =>
            /\ nDone = 1 =>
                   created[p] = Len(mainEntries[p]) /\ skipped[p] = 0
            /\ nDone = 2 =>
                   /\ created[p] = 0
                   /\ skipped[p] = Len(mainEntries[p])
                   /\ store = store0[p]

\* C2: a run sends at most one create request per dedup key.
C2_OneCreatePerKey ==
    \A p \in Procs : \A a, b \in 1..Len(ops[p]) :
        (a < b /\ ops[p][a].op = "create" /\ ops[p][b].op = "create") =>
            EntryKey(mainEntries[p][ops[p][a].arg]) #
                EntryKey(mainEntries[p][ops[p][b].arg])

\* no two entries of es have the same (location, program)
DistinctKeys(es) ==
    \A a, b \in 1..Len(es) :
        a # b => (es[a].loc # es[b].loc \/ es[a].program # es[b].program)

\* C8: a response that is not ok is the last request of its run, the pages a
\* run found in the store stay there, and when the first run completes, after
\* any number of aborted runs over the same entries (taken here with no two
\* of the same location and program), the store holds exactly one page per
\* entry, the run having created the entries that had no page and skipped the
\* others.
C8_Convergence ==
    \A p \in Procs :
        /\ \A k \in 1..(Len(ops[p]) - 1) : ops[p][k].ok
        /\ pc[p] # "idle" =>
               /\ Len(store0[p]) <= Len(store)
               /\ SubSeq(store, 1, Len(store0[p])) = store0[p]
        /\ (pc[p] = "done" /\ nDone = 1 /\ DistinctKeys(mainEntries[p])) =>
               /\ \A j \in 1..Len(mainEntries[p]) :
                      Cardinality(PagesOf(mainEntries[p][j])) = 1
               /\ skipped[p] = Cardinality(StoredAtStart(p))
               /\ created[p] = Len(mainEntries[p]) - Cardinality(StoredAtStart(p))

\* C9: discovery fails with the discovery error only when the root page has
\* no child database at any place, and otherwise returns the id of a child
\* database.
C9_DiscoveryComplete ==
    \A p \in Procs :
        /\ (pc[p] = "failed" /\ reason[p] = ErrNoDatabase) =>
               \A k \in 1..Len(children) : children[k] # "child_database"
        /\ databaseId[p] # 0 => children[databaseId[p]] = "child_database"

\* C10: a run that ends because the token or the page id is missing, or
\* because no entry is of the target date, has sent no request (none answered,
\* none in flight), and the store is as it was when the run started.
C10_EarlyFailureNoRemote ==
    \A p \in Procs :
        (pc[p] = "failed" /\ reason[p] \in {ErrNoToken, ErrNoPageId, ErrNoEntries}) =>
            ops[p] = <<>> /\ inflight[p] = 0 /\ store = store0[p]

\* a run with its configuration complete whose markdown has blocks, none of
\* the target date
C10_Witness ==
    /\ pc[1] = "failed"
    /\ reason[1] = ErrNoEntries
    /\ token[1] # ""
    /\ pageId[1] # ""
    /\ sourceMd # <<>>
    /\ ops[1] = <<>>

\* the pages at places a and b of the store share date, location and program
SameRecord(a, b) ==
    /\ store[a].Date = store[b].Date
    /\ Join(store[a].Location, <<>>) = Join(store[b].Location, <<>>)
    /\ store[a].Type = store[b].Type

DuplicateInStore == \E a, b \in 1..Len(store) : a < b /\ SameRecord(a, b)

\* the entries every run of the day parses from the markdown
TodaysEntries == parseWodPage(sourceMd, ddmmyyyyFromISO(today))

\* C11 (runs that never overlap): from a store without a page of the day and
\* entries of distinct (location, program), runs that follow one another
\* never leave two pages of the same date, location and program.
C11_NoDuplicateWithoutOverlap ==
    DistinctKeys(TodaysEntries) => ~DuplicateInStore

\* C11 (runs that overlap): both processes got an empty set of existing keys,
\* so both queried before either created, and the store holds two pages of
\* the same date, location and program for entries of distinct keys with the
\* program given.
C11_RaceDuplicate ==
    /\ \A p \in Procs : pc[p] \in {"loop", "done"} /\ existingKeys[p] = {}
    /\ DistinctKeys(TodaysEntries)
    /\ \A j \in 1..Len(TodaysEntries) : TodaysEntries[j].program # <<>>
    /\ DuplicateInStore

\* the query of the run of p was answered
Queried(p) == \E a \in 1..Len(ops[p]) : ops[p][a].op = "query" /\ ops[p][a].ok

\* the page is of the day and has the location and the program of e
RecordMatches(page, e) ==
    /\ page.Date = today
    /\ Join(page.Location, <<>>) = e.loc
    /\ page.Type = e.program

\* C13: the set queryExistingForDate returned holds the key of every page of
\* the day that was in the store, however many there are, and no run sends a
\* create for an entry whose location and program are those of a page of the
\* day that was in the store.
C13_CompleteExistingKeys ==
    \A p \in Procs :
        /\ Queried(p) =>
               \A k \in 1..Len(store0[p]) :
                   store0[p][k].Date = today =>
                       PageKey(store0[p][k]) \in existingKeys[p]
        /\ \A a \in 1..Len(ops[p]) :
               ops[p][a].op = "create" =>
                   ~\E k \in 1..Len(store0[p]) :
                       RecordMatches(store0[p][k], mainEntries[p][ops[p][a].arg])

\* C14: for every entry of a run, the key read back from the page createWodRow
\* writes for it is the key main computes for it, the entries with an empty
\* program included.
C14_KeyRoundTrip ==
    \A p \in Procs : \A j \in 1..Len(mainEntries[p]) :
        PageKey(createWodRow(today, mainEntries[p][j])) = EntryKey(mainEntries[p][j])

\* the place of a request in the order of main
Rank(kind) == CASE kind = "list" -> 1 [] kind = "query" -> 2 [] kind = "create" -> 3

\* C15: a run has at most one request in flight; its requests are one
\* listing, then one query, then the creates, and the creates follow the
\* order of the entries.
C15_SequentialOrdered ==
    \A p \in Procs :
        /\ inflight[p] <= 1
        /\ \A a, b \in 1..Len(ops[p]) :
               a < b =>
                   /\ Rank(ops[p][a].op) <= Rank(ops[p][b].op)
                   /\ ops[p][b].op # "create" => Rank(ops[p][a].op) < Rank(ops[p][b].op)
                   /\ ops[p][a].op = "create" => ops[p][a].arg < ops[p][b].arg

\* a run that listed, queried and created the pages of two entries in turn
C15_Witness ==
    /\ pc[1] = "done"
    /\ Len(ops[1]) = 4
    /\ [k \in 1..4 |-> ops[1][k].op] = <<"list", "query", "create", "create">>
    /\ ops[1][3].arg = 1 /\ ops[1][4].arg = 2

\* the creates of the run of p that were answered ok
OkCreates(p) == {a \in 1..Len(ops[p]) : ops[p][a].op = "create" /\ ops[p][a].ok}

\* C16: whether a run completes or aborts, the pages that were in the store
\* when it started are there, unchanged and in place, and what the store has
\* more is one page per create that was answered ok.
C16_AppendOnly ==
    \A p \in Procs :
        pc[p] # "idle" =>
            /\ Len(store0[p]) <= Len(store)
            /\ \A k \in 1..Len(store0[p]) : store[k] = store0[p][k]
            /\ Len(store) = Len(store0[p]) + Cardinality(OkCreates(p))
            /\ \A a \in 1..Len(ops[p]) : ops[p][a].op \in {"list", "query", "create"}

\* a run that found pages in the store, created one and then aborted
C16_Witness ==
    /\ pc[1] = "failed"
    /\ reason[1] = ErrApi
    /\ store0[1] # <<>>
    /\ Len(store) > Len(store0[1])

\* C18: in the loop and after it, created + skipped is the number of entries
\* taken, created is the number of creates answered ok, and a run that
\* completes has created + skipped equal to the number of entries parsed.
C18_CountAccounting ==
    \A p \in Procs :
        /\ created[p] + skipped[p] = pos[p]
        /\ created[p] = Cardinality(OkCreates(p))
        /\ pc[p] = "done" =>
               /\ mainEntries[p] = TodaysEntries
               /\ created[p] + skipped[p] = Len(mainEntries[p])

\* a run that completed having skipped an entry and created another
C18_Witness ==
    /\ pc[1] = "done"
    /\ created[1] >= 1
    /\ skipped[1] >= 1

\* the entries the loop of p has taken without a create
SkippedEntries(p) ==
    {j \in 1..pos[p] :
        ~\E a \in 1..Len(ops[p]) : ops[p][a].op = "create" /\ ops[p][a].arg = j}

\* C19: two entries of a run have the same key only when they have the same
\* location and the same program, and an entry is skipped only when a page of
\* the day with its location and its program was in the store.
C19_KeyInjective ==
    \A p \in Procs :
        /\ \A a, b \in 1..Len(mainEntries[p]) :
               EntryKey(mainEntries[p][a]) = EntryKey(mainEntries[p][b]) =>
                   /\ mainEntries[p][a].loc = mainEntries[p][b].loc
                   /\ mainEntries[p][a].program = mainEntries[p][b].program
        /\ \A j \in SkippedEntries(p) :
               \E k \in 1..Len(store0[p]) :
                   RecordMatches(store0[p][k], mainEntries[p][j])

====
